---- MODULE Spec2Model ----
(***************************************************************************)
(* Model of the xv6 buffer cache of xv6-labs-2021-lock/kernel/bio.c:       *)
(* NBUF slots hashed over NBUK buckets, each bucket a spinlock plus a      *)
(* singly linked list, bget with a global scan for a victim, bread,        *)
(* bwrite, brelse, bpin and bunpin.  Callers are processes that interleave *)
(* at the granularity of the critical sections of the code.                *)
(***************************************************************************)
EXTENDS Integers, Naturals, FiniteSets, Sequences, TLC

\* ---- bounds of the model ------------------------------------------------
NPROC == 2          \* concurrent callers
NBUF == 2           \* slots of bcache.buf (param.h has 30)
NBUK == 2           \* buckets (bio.c:26 has 13)
MaxBlock == 3       \* block numbers 1..MaxBlock of device 1
MaxCalls == 3       \* calls of bread in a behaviour
MaxTick == 1        \* the tick counter stops at MaxTick
MaxData == 1        \* block contents are 0..MaxData
MaxPin == 1         \* outstanding bpin calls per slot

Procs == 1..NPROC
Bufs == 1..NBUF
Buks == 0..(NBUK - 1)
NULL == 0
Blocks == {<<1, bn>> : bn \in 1..MaxBlock}
Data == 0..MaxData

VARIABLES
  head,           \* bcache.buckets[i].head.next
  next,           \* b->next
  dev, blockno,   \* b->dev, b->blockno
  valid,          \* b->valid
  refcnt,         \* b->refcnt
  timestamp,      \* b->timestamp
  data,           \* b->data
  buflock,        \* b->lock (sleeplock): holder or 0
  buklock,        \* bcache.buckets[i].lock: holder or 0
  bcachelock,     \* bcache.lock: holder or 0
  disk,           \* the medium behind virtio_disk_rw
  ticks,          \* the tick counter
  panicked,       \* message of panic(), "" while running
  pc,             \* position of each caller
  arg,            \* (dev, blockno) of the caller's bget/bread
  b,              \* the caller's struct buf *b
  i,              \* bget: bucket index of the scan
  max_timestamp,  \* bget: max_timestamp
  lru_buk_id,     \* bget: lru_buk_id
  prev_lru_b,     \* bget: prev_lru_b (a node, see HeadNode)
  lru_b,          \* bget: lru_b
  how,            \* how the caller's bget returned: "hit", "dup", "init"
  pins,           \* bpin calls on a slot not yet matched by bunpin
  calls,          \* number of calls of bread so far
  pair,           \* the two callers of a concurrent bget of one block
  mode            \* scheduling of callers: "free", "seq" or "pair"

vars == <<head, next, dev, blockno, valid, refcnt, timestamp, data, buflock,
          buklock, bcachelock, disk, ticks, panicked, pc, arg, b, i,
          max_timestamp, lru_buk_id, prev_lru_b, lru_b, how, pins, calls,
          pair, mode>>

slotvars == <<head, next, dev, blockno, valid, refcnt, timestamp, data>>
lockvars == <<buflock, buklock, bcachelock>>
scanvars == <<i, max_timestamp, lru_buk_id, prev_lru_b>>

\* ---- pure helpers -------------------------------------------------------

\* #define hash(dev, blockno) ((dev * blockno) % NBUK)
hash(d, bn) == (d * bn) % NBUK

\* A list node is a slot 1..NBUF or the head of bucket k, written NBUF+1+k.
HeadNode(k) == NBUF + 1 + k
IsHead(n) == n > NBUF

\* n->next for a node n of the lists h (heads) and nx (slots)
NextOf(h, nx, n) == IF IsHead(n) THEN h[n - NBUF - 1] ELSE nx[n]

\* n->next = v
SetNext(h, nx, n, v) ==
  IF IsHead(n) THEN <<[h EXCEPT ![n - NBUF - 1] = v], nx>>
               ELSE <<h, [nx EXCEPT ![n] = v]>>

\* the slots reached from node n through next, in order
RECURSIVE Chain(_, _, _, _)
Chain(h, nx, n, fuel) ==
  IF fuel = 0 \/ NextOf(h, nx, n) = NULL THEN <<>>
  ELSE <<NextOf(h, nx, n)>> \o Chain(h, nx, NextOf(h, nx, n), fuel - 1)

BucketList(k) == Chain(head, next, HeadNode(k), NBUF + 1)

InList(s, k) == \E j \in 1..Len(BucketList(k)) : BucketList(k)[j] = s

\* for (b = head.next; b; b = b->next) if (b->dev == dev && b->blockno == blockno)
RECURSIVE Lookup(_, _, _, _, _)
Lookup(h, nx, n, d, bn) ==
  IF NextOf(h, nx, n) = NULL THEN NULL
  ELSE IF dev[NextOf(h, nx, n)] = d /\ blockno[NextOf(h, nx, n)] = bn
       THEN NextOf(h, nx, n)
       ELSE Lookup(h, nx, NextOf(h, nx, n), d, bn)

\* the test of the scan without its refcnt == 0 conjunct
IsCandidateAnyRef(s, maxts) == timestamp[s] >= maxts

\* if (prev_b->next->refcnt == 0 && prev_b->next->timestamp >= max_timestamp)
IsCandidate(s, maxts) == refcnt[s] = 0 /\ timestamp[s] >= maxts

\* a scan that replaces the best candidate only by a greater timestamp
RECURSIVE ScanBucketStrict(_, _, _, _)
ScanBucketStrict(prev_b, maxts, plb, better) ==
  IF NextOf(head, next, prev_b) = NULL THEN <<maxts, plb, better>>
  ELSE IF /\ refcnt[NextOf(head, next, prev_b)] = 0
          /\ timestamp[NextOf(head, next, prev_b)] > maxts
       THEN ScanBucketStrict(NextOf(head, next, prev_b),
                             timestamp[NextOf(head, next, prev_b)], prev_b, TRUE)
       ELSE ScanBucketStrict(NextOf(head, next, prev_b), maxts, plb, better)

\* the while loop of the scan over one bucket, from prev_b on:
\* returns <<max_timestamp, prev_lru_b, is_better>>
RECURSIVE ScanBucket(_, _, _, _)
ScanBucket(prev_b, maxts, plb, better) ==
  IF NextOf(head, next, prev_b) = NULL THEN <<maxts, plb, better>>
  ELSE IF IsCandidate(NextOf(head, next, prev_b), maxts)
       THEN ScanBucket(NextOf(head, next, prev_b),
                       timestamp[NextOf(head, next, prev_b)], prev_b, TRUE)
       ELSE ScanBucket(NextOf(head, next, prev_b), maxts, plb, better)

\* holdingsleep without the comparison of the holder's pid
holdingsleepAnyPid(p, s) == buflock[s] # 0

\* holdingsleep(&b->lock) for caller p
holdingsleep(p, s) == buflock[s] = p

\* ---- scheduling of the callers -----------------------------------------
InBget(q) == pc[q] \in {"scan", "exam", "steal", "acq_bcache", "link"}
Busy(q) == InBget(q) \/ pc[q] = "brelse2"
OthersIdle(p) == \A q \in Procs \ {p} : ~Busy(q)

\* may caller p start a call now
MayStart(p) ==
  /\ panicked = ""
  /\ (mode = "free" \/ OthersIdle(p))

\* may caller p start bget(d, bn) now: in mode "pair" one more caller may
\* join a bget of the same block that is under way
Joins(p, d, bn) ==
  /\ mode = "pair" /\ pair = {}
  /\ \E q \in Procs \ {p} :
       /\ InBget(q) /\ arg[q] = <<d, bn>>
       /\ \A r \in Procs \ {p, q} : ~Busy(r)

MayStartBget(p, d, bn) == panicked = "" /\ (MayStart(p) \/ Joins(p, d, bn))

PairAfterStart(p, d, bn) ==
  IF ~MayStart(p) /\ Joins(p, d, bn) /\ (\E s \in Bufs : refcnt[s] = 0)
  THEN {p} \cup {q \in Procs \ {p} : InBget(q) /\ arg[q] = <<d, bn>>}
  ELSE {}

\* ---- binit --------------------------------------------------------------
InitCache ==
  /\ head = [k \in Buks |-> IF k = 0 THEN 1 ELSE NULL]
  /\ next = [s \in Bufs |-> IF s = NBUF THEN NULL ELSE s + 1]
  /\ dev = [s \in Bufs |-> 0]
  /\ blockno = [s \in Bufs |-> 0]
  /\ valid = [s \in Bufs |-> FALSE]
  /\ refcnt = [s \in Bufs |-> 0]
  /\ timestamp = [s \in Bufs |-> 0]
  /\ data = [s \in Bufs |-> 0]
  /\ buflock = [s \in Bufs |-> 0]
  /\ buklock = [k \in Buks |-> 0]
  /\ bcachelock = 0
  /\ disk = [blk \in Blocks |-> 0]
  /\ ticks = 0
  /\ panicked = ""
  /\ pc = [p \in Procs |-> "idle"]
  /\ arg = [p \in Procs |-> <<0, 0>>]
  /\ b = [p \in Procs |-> NULL]
  /\ i = [p \in Procs |-> 0]
  /\ max_timestamp = [p \in Procs |-> 0]
  /\ lru_buk_id = [p \in Procs |-> -1]
  /\ prev_lru_b = [p \in Procs |-> NULL]
  /\ lru_b = [p \in Procs |-> NULL]
  /\ how = [p \in Procs |-> ""]
  /\ pins = [s \in Bufs |-> 0]
  /\ pair = {}
  /\ calls = 0

Init == InitCache /\ mode = "free"
InitSeq == InitCache /\ mode = "seq"
InitPair == InitCache /\ mode = "pair"

\* ---- bread / bget -------------------------------------------------------

\* bread calls bget: the fast path, bio.c:90-104, one critical section of
\* bucket hash(dev, blockno)
BgetFast(p, d, bn) ==
  /\ pc[p] = "idle"
  /\ MayStartBget(p, d, bn)
  /\ calls < MaxCalls
  /\ calls' = calls + 1
  /\ buklock[hash(d, bn)] = 0
  /\ arg' = [arg EXCEPT ![p] = <<d, bn>>]
  /\ pair' = PairAfterStart(p, d, bn)
  /\ IF Lookup(head, next, HeadNode(hash(d, bn)), d, bn) # NULL
     THEN /\ refcnt' = [refcnt EXCEPT
                 ![Lookup(head, next, HeadNode(hash(d, bn)), d, bn)] = @ + 1]
          /\ b' = [b EXCEPT ![p] = Lookup(head, next, HeadNode(hash(d, bn)), d, bn)]
          /\ how' = [how EXCEPT ![p] = "hit"]
          /\ pc' = [pc EXCEPT ![p] = "sleep"]
     ELSE /\ pc' = [pc EXCEPT ![p] = "scan"]
          /\ UNCHANGED <<refcnt, b, how>>
  /\ UNCHANGED <<head, next, dev, blockno, valid, timestamp, data, lockvars,
                 disk, ticks, panicked, scanvars, lru_b, pins, mode>>

\* acquire(&bcache.buckets[i].lock) of the for loop over the buckets,
\* bio.c:119-120
ScanAcquire(p) ==
  /\ pc[p] = "scan" /\ panicked = ""
  /\ buklock[i[p]] = 0
  /\ buklock' = [buklock EXCEPT ![i[p]] = p]
  /\ pc' = [pc EXCEPT ![p] = "exam"]
  /\ UNCHANGED <<slotvars, buflock, bcachelock, disk, ticks, panicked, arg, b,
                 scanvars, lru_b, how, pins, pair, calls, mode>>

\* a hand-off that keeps the lock of the old best bucket
HandOffKeep(lk, better, bi, old) ==
  IF better THEN lk ELSE [lk EXCEPT ![bi] = 0]

\* the locks after one bucket of the scan, bio.c:132-143: a better bucket
\* i replaces lru_buk_id and the lock of the old one is released,
\* otherwise the lock of i is released
HandOff(lk, better, bi, old) ==
  IF better
  THEN [k \in DOMAIN lk |-> IF k = old THEN 0 ELSE lk[k]]
  ELSE [lk EXCEPT ![bi] = 0]

\* the rest of one iteration of the for loop, bio.c:121-144
ScanStep(p) ==
  /\ pc[p] = "exam" /\ panicked = ""
  /\ LET r == ScanBucket(HeadNode(i[p]), max_timestamp[p], prev_lru_b[p], FALSE)
     IN /\ max_timestamp' = [max_timestamp EXCEPT ![p] = r[1]]
        /\ prev_lru_b' = [prev_lru_b EXCEPT ![p] = r[2]]
        /\ buklock' = HandOff(buklock, r[3], i[p], lru_buk_id[p])
        /\ lru_buk_id' = [lru_buk_id EXCEPT ![p] = IF r[3] THEN i[p] ELSE @]
  /\ i' = [i EXCEPT ![p] = @ + 1]
  /\ pc' = [pc EXCEPT ![p] = IF i[p] + 1 = NBUK THEN "steal" ELSE "scan"]
  /\ UNCHANGED <<slotvars, buflock, bcachelock, disk, ticks, panicked, arg, b,
                 lru_b, how, pins, pair, calls, mode>>

\* lru_b = prev_lru_b->next and the steal, bio.c:146-152.  With no candidate
\* prev_lru_b is the null pointer and the read of prev_lru_b->next is
\* undefined: it faults (the kernel has nothing mapped at address 0,
\* kerneltrap panics) or it reads a null lru_b.
NullDerefOutcomes == {"fault", "null"}

Steal(p) ==
  /\ pc[p] = "steal" /\ panicked = ""
  /\ IF prev_lru_b[p] = NULL
     THEN \E o \in NullDerefOutcomes :
            /\ panicked' = IF o = "fault" THEN "kerneltrap" ELSE ""
            /\ pc' = [pc EXCEPT ![p] = IF o = "fault" THEN "panic" ELSE "acq_bcache"]
            /\ lru_b' = [lru_b EXCEPT ![p] = NULL]
            /\ UNCHANGED <<head, next, buklock>>
     ELSE /\ lru_b' = [lru_b EXCEPT ![p] = NextOf(head, next, prev_lru_b[p])]
          /\ IF NextOf(head, next, prev_lru_b[p]) # NULL
             THEN /\ head' = SetNext(head, next, prev_lru_b[p],
                                 next[NextOf(head, next, prev_lru_b[p])])[1]
                  /\ next' = SetNext(head, next, prev_lru_b[p],
                                 next[NextOf(head, next, prev_lru_b[p])])[2]
                  /\ buklock' = [buklock EXCEPT ![lru_buk_id[p]] = 0]
             ELSE UNCHANGED <<head, next, buklock>>
          /\ pc' = [pc EXCEPT ![p] = "acq_bcache"]
          /\ UNCHANGED panicked
  /\ i' = [i EXCEPT ![p] = 0]
  /\ max_timestamp' = [max_timestamp EXCEPT ![p] = 0]
  /\ lru_buk_id' = [lru_buk_id EXCEPT ![p] = -1]
  /\ prev_lru_b' = [prev_lru_b EXCEPT ![p] = NULL]
  /\ UNCHANGED <<dev, blockno, valid, refcnt, timestamp, data, buflock,
                 bcachelock, disk, ticks, arg, b, how, pins, pair, calls, mode>>

\* acquire(&bcache.lock), bio.c:154
AcquireBcache(p) ==
  /\ pc[p] = "acq_bcache" /\ panicked = ""
  /\ bcachelock = 0
  /\ bcachelock' = p
  /\ pc' = [pc EXCEPT ![p] = "link"]
  /\ UNCHANGED <<slotvars, buflock, buklock, disk, ticks, panicked, arg, b,
                 scanvars, lru_b, how, pins, pair, calls, mode>>

\* the link without lru_b->next = head.next
LinkHeadNoNext(h, nx, k, v) ==
  IF v # NULL THEN <<[h EXCEPT ![k] = v], nx>> ELSE <<h, nx>>

\* lru_b->next = head.next; head.next = lru_b, bio.c:156-160
LinkHead(h, nx, k, v) ==
  IF v # NULL THEN <<[h EXCEPT ![k] = v], [nx EXCEPT ![v] = h[k]]>>
              ELSE <<h, nx>>

\* a return that leaves bcache.lock with its holder
KeepBcache(lk) == lk

\* release(&bcache.lock) before acquiresleep, bio.c:170 and 186
ReleaseBcache(lk) == 0

\* the critical section of the target bucket, bio.c:155-186: link the victim,
\* look for the block again, panic or initialise the victim
Link(p) ==
  /\ pc[p] = "link" /\ panicked = ""
  /\ buklock[hash(arg[p][1], arg[p][2])] = 0
  /\ LET k == hash(arg[p][1], arg[p][2])
         l == LinkHead(head, next, k, lru_b[p])
         f == Lookup(l[1], l[2], HeadNode(k), arg[p][1], arg[p][2])
     IN /\ head' = l[1]
        /\ next' = l[2]
        /\ IF f # NULL
           THEN /\ refcnt' = [refcnt EXCEPT ![f] = @ + 1]
                /\ b' = [b EXCEPT ![p] = f]
                /\ how' = [how EXCEPT ![p] = "dup"]
                /\ pc' = [pc EXCEPT ![p] = "sleep"]
                /\ bcachelock' = ReleaseBcache(bcachelock)
                /\ UNCHANGED <<dev, blockno, valid, panicked>>
           ELSE IF lru_b[p] = NULL
           THEN /\ panicked' = "bget: no buffers"
                /\ pc' = [pc EXCEPT ![p] = "panic"]
                /\ UNCHANGED <<dev, blockno, valid, refcnt, b, how, bcachelock>>
           ELSE /\ dev' = [dev EXCEPT ![lru_b[p]] = arg[p][1]]
                /\ blockno' = [blockno EXCEPT ![lru_b[p]] = arg[p][2]]
                /\ valid' = [valid EXCEPT ![lru_b[p]] = FALSE]
                /\ refcnt' = [refcnt EXCEPT ![lru_b[p]] = 1]
                /\ b' = [b EXCEPT ![p] = lru_b[p]]
                /\ how' = [how EXCEPT ![p] = "init"]
                /\ pc' = [pc EXCEPT ![p] = "sleep"]
                /\ bcachelock' = ReleaseBcache(bcachelock)
                /\ UNCHANGED panicked
  /\ lru_b' = [lru_b EXCEPT ![p] = NULL]
  /\ UNCHANGED <<timestamp, data, buflock, buklock, disk, ticks, arg,
                 scanvars, pins, pair, calls, mode>>

\* acquiresleep(&b->lock) and the return of bget, then bread's
\* if(!b->valid) { virtio_disk_rw(b, 0); b->valid = 1; }, bio.c:100/172/187
\* and 198-204
BreadReturn(p) ==
  /\ pc[p] = "sleep" /\ panicked = ""
  /\ buflock[b[p]] = 0
  /\ buflock' = [buflock EXCEPT ![b[p]] = p]
  /\ IF valid[b[p]]
     THEN UNCHANGED <<data, valid>>
     ELSE /\ data' = [data EXCEPT ![b[p]] = disk[<<dev[b[p]], blockno[b[p]]>>]]
          /\ valid' = [valid EXCEPT ![b[p]] = TRUE]
  /\ pc' = [pc EXCEPT ![p] = "held"]
  /\ UNCHANGED <<head, next, dev, blockno, refcnt, timestamp, buklock,
                 bcachelock, disk, ticks, panicked, arg, b, scanvars, lru_b,
                 how, pins, pair, calls, mode>>

\* ---- the callers of bwrite and brelse --------------------------------

\* Contents are the sequence numbers of the writes to the medium: a holder
\* that changes b->data stores the number after the last one on the medium.
MaxOf(S) == CHOOSE x \in S : \A y \in S : y <= x
NewData == 1 + MaxOf({disk[blk] : blk \in Blocks})

\* bwrite(s), bio.c:208-214, called by the holder of s with b->data as it
\* is or after it stored new contents v, or by a caller that holds no slot
Bwrite(p, s, v) ==
  /\ MayStart(p)
  /\ \/ pc[p] = "held" /\ s = b[p]
        /\ v \in {data[s], NewData}
     \/ pc[p] = "idle" /\ v = data[s] /\ mode = "seq"
  /\ IF ~holdingsleep(p, s)
     THEN /\ panicked' = "bwrite"
          /\ pc' = [pc EXCEPT ![p] = "panic"]
          /\ UNCHANGED <<data, disk>>
     ELSE /\ data' = [data EXCEPT ![s] = v]
          /\ disk' = [disk EXCEPT ![<<dev[s], blockno[s]>>] = v]
          /\ pc' = [pc EXCEPT ![p] = "held"]
          /\ UNCHANGED panicked
  /\ b' = [b EXCEPT ![p] = s]
  /\ pair' = {}
  /\ UNCHANGED <<head, next, dev, blockno, valid, refcnt, timestamp, lockvars,
                 ticks, arg, scanvars, lru_b, how, pins, calls, mode>>

\* brelse(s) up to releasesleep, bio.c:223-226, called by the holder of s
\* or by a caller that holds no slot
Brelse(p, s) ==
  /\ MayStart(p)
  /\ \/ pc[p] = "held" /\ s = b[p]
     \/ pc[p] = "idle" /\ mode = "seq"
  /\ IF ~holdingsleep(p, s)
     THEN /\ panicked' = "brelse"
          /\ pc' = [pc EXCEPT ![p] = "panic"]
          /\ UNCHANGED buflock
     ELSE /\ buflock' = [buflock EXCEPT ![s] = 0]
          /\ pc' = [pc EXCEPT ![p] = "brelse2"]
          /\ UNCHANGED panicked
  /\ b' = [b EXCEPT ![p] = s]
  /\ pair' = {}
  /\ UNCHANGED <<slotvars, buklock, bcachelock, disk, ticks, arg, scanvars,
                 lru_b, how, pins, calls, mode>>

\* a release that clears refcnt instead of decrementing it
UnrefClear(rc, ts, s, now) ==
  <<[rc EXCEPT ![s] = 0], [ts EXCEPT ![s] = now]>>

\* b->refcnt--; if (b->refcnt == 0) b->timestamp = ticks;  bio.c:230-234
Unref(rc, ts, s, now) ==
  <<[rc EXCEPT ![s] = @ - 1],
    IF rc[s] - 1 = 0 THEN [ts EXCEPT ![s] = now] ELSE ts>>

\* the critical section of brelse, bio.c:228-235
Brelse2(p) ==
  /\ pc[p] = "brelse2" /\ panicked = ""
  /\ buklock[hash(dev[b[p]], blockno[b[p]])] = 0
  /\ refcnt' = Unref(refcnt, timestamp, b[p], ticks)[1]
  /\ timestamp' = Unref(refcnt, timestamp, b[p], ticks)[2]
  /\ pc' = [pc EXCEPT ![p] = "idle"]
  /\ b' = [b EXCEPT ![p] = NULL]
  /\ arg' = [arg EXCEPT ![p] = <<0, 0>>]
  /\ how' = [how EXCEPT ![p] = ""]
  /\ UNCHANGED <<head, next, dev, blockno, valid, data, lockvars, disk, ticks,
                 panicked, scanvars, lru_b, pins, pair, calls, mode>>

\* b->refcnt++ of bpin, bio.c:243
PinCount(rc, s) == [rc EXCEPT ![s] = @ + 1]

\* bpin by the holder of the slot, bio.c:238-245
Bpin(p) ==
  /\ pc[p] = "held" /\ MayStart(p)
  /\ pins[b[p]] < MaxPin
  /\ buklock[hash(dev[b[p]], blockno[b[p]])] = 0
  /\ refcnt' = PinCount(refcnt, b[p])
  /\ pins' = [pins EXCEPT ![b[p]] = @ + 1]
  /\ pair' = {}
  /\ UNCHANGED <<head, next, dev, blockno, valid, timestamp, data, lockvars,
                 disk, ticks, panicked, pc, arg, b, scanvars, lru_b, how, calls, mode>>

\* bunpin by the holder of a pinned slot, bio.c:247-254
Bunpin(p) ==
  /\ pc[p] = "held" /\ MayStart(p)
  /\ pins[b[p]] > 0
  /\ buklock[hash(dev[b[p]], blockno[b[p]])] = 0
  /\ refcnt' = [refcnt EXCEPT ![b[p]] = @ - 1]
  /\ pins' = [pins EXCEPT ![b[p]] = @ - 1]
  /\ pair' = {}
  /\ UNCHANGED <<head, next, dev, blockno, valid, timestamp, data, lockvars,
                 disk, ticks, panicked, pc, arg, b, scanvars, lru_b, how, calls, mode>>

\* the timer interrupt increments ticks
Tick ==
  /\ panicked = "" /\ ticks < MaxTick
  /\ ticks' = ticks + 1
  /\ UNCHANGED <<slotvars, lockvars, disk, panicked, pc, arg, b, scanvars,
                 lru_b, how, pins, pair, calls, mode>>

Next ==
  \/ \E p \in Procs, blk \in Blocks : BgetFast(p, blk[1], blk[2])
  \/ \E p \in Procs : ScanAcquire(p)
  \/ \E p \in Procs : ScanStep(p)
  \/ \E p \in Procs : Steal(p)
  \/ \E p \in Procs : AcquireBcache(p)
  \/ \E p \in Procs : Link(p)
  \/ \E p \in Procs : BreadReturn(p)
  \/ \E p \in Procs, s \in Bufs, v \in Data : Bwrite(p, s, v)
  \/ \E p \in Procs, s \in Bufs : Brelse(p, s)
  \/ \E p \in Procs : Brelse2(p)
  \/ \E p \in Procs : Bpin(p)
  \/ \E p \in Procs : Bunpin(p)
  \/ Tick

Spec == Init /\ [][Next]_vars
SpecSeq == InitSeq /\ [][Next]_vars
SpecPair == InitPair /\ [][Next]_vars

TypeOK ==
  /\ \A s \in Bufs : refcnt[s] >= 0 /\ next[s] \in 0..NBUF
  /\ \A p \in Procs : pc[p] \in {"idle", "scan", "exam", "steal", "acq_bcache", "link",
        "sleep", "held", "brelse2", "panic"}

\* ---- the claims ---------------------------------------------------------

Ident(s) == <<dev[s], blockno[s]>>

\* C1 Identity uniqueness: no two distinct slots both have refcnt > 0 and
\* the same (dev, blockno).
C1_IdentityUnique ==
  \A s, t \in Bufs :
    (s # t /\ refcnt[s] > 0 /\ refcnt[t] > 0) => Ident(s) # Ident(t)

\* C3 Read-through correctness: when bread(d, b) returns a slot, the slot is
\* valid and its contents are the contents of block b of device d on the
\* medium.
C3_ReadThrough ==
  [][\A p \in Procs :
       (pc[p] = "sleep" /\ pc'[p] = "held")
         => (valid'[b'[p]] /\ data'[b'[p]] = disk'[arg'[p]])]_vars

\* C7 Per-block mutual exclusion: at most one caller is between the return
\* of bread(d, b) and its brelse for a block (d, b).
C7_BlockMutex ==
  \A p, q \in Procs :
    (p # q /\ pc[p] = "held" /\ pc[q] = "held") => arg[p] # arg[q]

\* C2 Two callers that concurrently call bget(d, b) for a block that is not
\* cached, while some slot is unreferenced, end with the same slot: one of
\* them initialised it, the other found it in its second look, and its
\* refcnt is 2.
C2_PairSameSlot ==
  \A p, q \in pair :
    (p # q /\ ~InBget(p) /\ ~InBget(q))
      => /\ panicked = ""
         /\ b[p] = b[q]
         /\ refcnt[b[p]] = 2
         /\ {how[p], how[q]} = {"init", "dup"}

\* there are at least two unreferenced slots, and the unreferenced slots
\* were released, at different ticks
ReleasedApart ==
  /\ Cardinality({s \in Bufs : refcnt[s] = 0}) >= 2
  /\ \A s, t \in Bufs :
       (refcnt[s] = 0 /\ refcnt[t] = 0)
         => (dev[s] # 0 /\ (s # t => timestamp[s] # timestamp[t]))

\* C5 Least-recently-unused eviction: on a miss with no other call in
\* flight and the unreferenced slots released at different ticks, the
\* victim is the unreferenced slot with the earliest release stamp.
C5_EvictEarliest ==
  [][\A p \in Procs :
       (pc[p] = "steal" /\ pc'[p] = "acq_bcache" /\ OthersIdle(p)
          /\ ReleasedApart)
         => /\ lru_b'[p] # NULL
            /\ \A s \in Bufs :
                 refcnt[s] = 0 => timestamp[lru_b'[p]] <= timestamp[s]]_vars

\* C10 Capacity exhaustion is fail-fast: a bget that misses while every slot
\* has refcnt > 0 and no other call is in flight ends only in the panic
\* "bget: no buffers"; it returns no slot and leaves the identity, valid
\* flag, refcnt and bucket membership of every slot as they were.
C10_CapacityFailFast ==
  [][\A p \in Procs :
       (InBget(p) /\ OthersIdle(p) /\ (\A s \in Bufs : refcnt[s] > 0)
          /\ pc'[p] # pc[p])
         => /\ UNCHANGED <<head, next, dev, blockno, valid, refcnt>>
            /\ \/ InBget(p)'
               \/ /\ pc'[p] = "panic"
                  /\ panicked' = "bget: no buffers"
                  /\ b'[p] = NULL]_vars

\* the buckets whose list contains slot s
SlotBuckets(s) == {k \in Buks : InList(s, k)}

\* C4 Pin safety: a slot with refcnt > 0 is never chosen as victim: no bget
\* takes it as lru_b, unlinks it from its bucket, or reassigns its identity
\* or clears its valid flag.
C4_PinSafety ==
  [][\A s \in Bufs :
       refcnt[s] > 0
         => /\ \A p \in Procs : lru_b'[p] # s
            /\ (UNCHANGED <<head, next>> \/ SlotBuckets(s)' = SlotBuckets(s))
            /\ dev'[s] = dev[s] /\ blockno'[s] = blockno[s]
            /\ (valid[s] => valid'[s])]_vars

\* the scan of a bget has a candidate from bucket 0 and is about to examine
\* bucket 1, which holds a pinned slot with a larger timestamp
C4_Witness ==
  \E p \in Procs, s \in Bufs :
    /\ pc[p] = "scan" /\ i[p] = 1 /\ prev_lru_b[p] # NULL
    /\ buklock[1] = 0 /\ InList(s, 1)
    /\ pins[s] > 0 /\ refcnt[s] > 0
    /\ timestamp[s] > max_timestamp[p]

Quiescent == \A p \in Procs : pc[p] \in {"idle", "held"}

Occurrences(s, k) ==
  Cardinality({j \in 1..Len(BucketList(k)) : BucketList(k)[j] = s})

RECURSIVE TotalLinked(_)
TotalLinked(K) ==
  IF K = {} THEN 0
  ELSE LET k == CHOOSE x \in K : TRUE
       IN Len(BucketList(k)) + TotalLinked(K \ {k})

\* C6 Membership at quiescence: when no call is in flight, every slot is in
\* the list of exactly one bucket, once, and the lists hold NBUF slots in
\* total.
C6_MembershipQuiescent ==
  Quiescent
    => /\ \A s \in Bufs :
            /\ Cardinality(SlotBuckets(s)) = 1
            /\ \A k \in SlotBuckets(s) : Occurrences(s, k) = 1
       /\ TotalLinked(Buks) = NBUF

\* no call is in flight, and a victim that was moved and then left in place
\* sits in a bucket other than the one of its identity
C6_Witness ==
  /\ Quiescent
  /\ \E s \in Bufs :
       dev[s] # 0 /\ ~InList(s, hash(dev[s], blockno[s]))

\* C8 Reference-count accounting: refcnt of a slot is the number of callers
\* that obtained it from bget and have not completed brelse, plus the
\* number of bpin calls not yet matched by bunpin.
C8_RefcntAccounting ==
  \A s \in Bufs :
    refcnt[s] =
      Cardinality({p \in Procs :
                     b[p] = s /\ pc[p] \in {"sleep", "held", "brelse2"}})
        + pins[s]

\* a pinned slot is held by one caller while another waits for its lock
C8_Witness ==
  \E s \in Bufs, p, q \in Procs :
    /\ pins[s] > 0 /\ refcnt[s] = 3
    /\ pc[p] = "held" /\ b[p] = s
    /\ pc[q] = "sleep" /\ b[q] = s

\* C9 Precondition violation: bwrite or brelse by a caller that does not
\* hold the slot's sleeplock ends in the panic, with no write to the medium,
\* no lock released and no change of refcnt, timestamp, valid or bucket
\* membership.
C9_UnheldFatal ==
  [][\A p \in Procs :
       (pc[p] = "idle" /\ pc'[p] \notin {"idle", "scan", "sleep"})
         => /\ buflock[b'[p]] # p
            /\ pc'[p] = "panic"
            /\ panicked' \in {"bwrite", "brelse"}
            /\ UNCHANGED <<disk, lockvars, slotvars>>]_vars

\* a caller panicked in brelse or bwrite on a slot another caller has locked
C9_Witness ==
  \E p \in Procs :
    /\ pc[p] = "panic" /\ panicked \in {"bwrite", "brelse"}
    /\ buflock[b[p]] \notin {0, p}

\* ---- the locks ----------------------------------------------------------

BukLocksOf(p) == {k \in Buks : buklock[k] = p}
HoldsShort(p) == bcachelock = p \/ BukLocksOf(p) # {}

\* C11: a caller that waits for the sleeplock of a slot (acquiresleep) or
\* that holds it, the only callers that read or write the medium, holds
\* neither bcache.lock nor the lock of a bucket.
C11_LockSeparation ==
  \A p \in Procs : pc[p] \in {"sleep", "held"} => ~HoldsShort(p)

\* a caller back from the slow path of bget waits for a sleeplock that
\* another caller holds, and every spinlock is free
C11_Witness ==
  \E p, q \in Procs :
    /\ p # q /\ pc[p] = "sleep" /\ how[p] \in {"dup", "init"}
    /\ pc[q] = "held" /\ buflock[b[p]] = q
    /\ bcachelock = 0 /\ \A k \in Buks : buklock[k] = 0

\* C12: a caller about to acquire bcache.lock, or holding it, holds no
\* bucket lock taken before it; a caller holds at most two bucket locks,
\* two only in the scan (lru_buk_id and the bucket i being examined) and
\* any only in the scan and the steal; a caller never acquires a spinlock
\* that it holds.
C12_LockOrder ==
  \A p \in Procs :
    /\ (pc[p] = "acq_bcache" \/ bcachelock = p) => BukLocksOf(p) = {}
    /\ Cardinality(BukLocksOf(p)) <= 2
    /\ Cardinality(BukLocksOf(p)) = 2
         => pc[p] = "exam" /\ BukLocksOf(p) = {lru_buk_id[p], i[p]}
    /\ BukLocksOf(p) # {} => pc[p] \in {"scan", "exam", "steal"}
    /\ pc[p] = "scan" => i[p] \notin BukLocksOf(p)
    /\ pc[p] = "acq_bcache" => bcachelock # p
    /\ pc[p] = "link" => hash(arg[p][1], arg[p][2]) \notin BukLocksOf(p)
    /\ pc[p] \in {"idle", "held", "brelse2"} => ~HoldsShort(p)

\* the scan holds the lock of the best bucket so far and of the bucket it
\* examines while another caller holds bcache.lock
C12_Witness ==
  \E p, q \in Procs :
    /\ pc[p] = "exam" /\ Cardinality(BukLocksOf(p)) = 2
    /\ pc[q] = "link" /\ bcachelock = q

\* C13: in every state, calls of bget in flight or not, every slot is on
\* the list of exactly one bucket, once; a slot on no list is the victim
\* of a caller that holds a bucket lock.
C13_MembershipAlways ==
  \A s \in Bufs :
    /\ Cardinality(SlotBuckets(s)) <= 1
    /\ \A k \in SlotBuckets(s) : Occurrences(s, k) = 1
    /\ SlotBuckets(s) = {}
         => \E p \in Procs : lru_b[p] = s /\ BukLocksOf(p) # {}

\* C14: the identity of a slot changes, and its valid flag is cleared, only
\* when the caller whose victim it is initialises it; a bget that missed
\* on the fast path returns a slot with the requested identity that is
\* either its own victim, just initialised with valid = 0 and refcnt = 1,
\* or another slot, left as it is but for one more reference: never its
\* own victim with the identity and the valid flag the victim had before.
C14_VictimFresh ==
  [][/\ \A s \in Bufs :
          (dev'[s] # dev[s] \/ blockno'[s] # blockno[s] \/ (valid[s] /\ ~valid'[s]))
            => \E p \in Procs :
                 /\ pc[p] = "link" /\ lru_b[p] = s /\ b'[p] = s
                 /\ refcnt[s] = 0 /\ refcnt'[s] = 1 /\ ~valid'[s]
                 /\ <<dev'[s], blockno'[s]>> = arg[p]
     /\ \A p \in Procs :
          (pc[p] = "link" /\ pc'[p] = "sleep")
            => /\ <<dev'[b'[p]], blockno'[b'[p]]>> = arg[p]
               /\ \/ /\ b'[p] = lru_b[p]
                     /\ how'[p] = "init"
                     /\ ~valid'[b'[p]] /\ refcnt'[b'[p]] = 1
                  \/ /\ b'[p] # lru_b[p]
                     /\ how'[p] = "dup"
                     /\ refcnt'[b'[p]] = refcnt[b'[p]] + 1
                     /\ UNCHANGED <<dev, blockno, valid>>]_vars

\* ---- the victim ---------------------------------------------------------

\* the slots in the order of the scan: buckets 0..NBUK-1, each list from
\* its head
RECURSIVE ScanOrderFrom(_)
ScanOrderFrom(k) ==
  IF k >= NBUK THEN <<>> ELSE BucketList(k) \o ScanOrderFrom(k + 1)
ScanOrder == ScanOrderFrom(0)

VictimOf(p) ==
  IF prev_lru_b[p] = NULL THEN NULL ELSE NextOf(head, next, prev_lru_b[p])

\* C16: a caller whose scan has finished holds no bucket lock if the scan
\* saw no slot with refcnt 0, and otherwise exactly the lock of bucket
\* lru_buk_id, whose list holds prev_lru_b->next, a slot with refcnt 0;
\* no slot is the victim of two calls of bget at once.
C16_ScanPost ==
  /\ \A p \in Procs :
       pc[p] = "steal"
         => IF prev_lru_b[p] = NULL
            THEN BukLocksOf(p) = {} /\ lru_buk_id[p] = -1
            ELSE /\ BukLocksOf(p) = {lru_buk_id[p]}
                 /\ VictimOf(p) # NULL
                 /\ InList(VictimOf(p), lru_buk_id[p])
                 /\ refcnt[VictimOf(p)] = 0
                 /\ \/ prev_lru_b[p] = HeadNode(lru_buk_id[p])
                    \/ /\ ~IsHead(prev_lru_b[p])
                       /\ InList(prev_lru_b[p], lru_buk_id[p])
  /\ \A p, q \in Procs :
       p # q =>
         /\ lru_b[p] # NULL => lru_b[p] # lru_b[q]
         /\ (pc[p] = "steal" /\ VictimOf(p) # NULL)
              => (VictimOf(p) # lru_b[q]
                  /\ (pc[q] = "steal" => VictimOf(p) # VictimOf(q)))

\* a scan has finished with a victim while the victim of another call
\* waits to be linked
C16_Witness ==
  \E p, q \in Procs :
    /\ p # q /\ pc[p] = "steal" /\ VictimOf(p) # NULL
    /\ pc[q] \in {"acq_bcache", "link"} /\ lru_b[q] # NULL

\* the slot of the target bucket that matches the request of caller p
TargetMatch(p) ==
  Lookup(head, next, HeadNode(hash(arg[p][1], arg[p][2])), arg[p][1], arg[p][2])

\* C17: a bget whose scan found no slot with refcnt 0 goes on to the
\* target bucket without a victim; if that list then holds a slot with the
\* requested identity, bget links nothing, adds one reference to that slot
\* and returns it; the kernel stops only there, with "bget: no buffers",
\* when the list holds no such slot.
C17_NoVictimDup ==
  [][/\ \A p \in Procs :
          /\ (pc[p] = "steal" /\ prev_lru_b[p] = NULL /\ pc'[p] # pc[p])
               => /\ pc'[p] = "acq_bcache" /\ lru_b'[p] = NULL
                  /\ panicked' = ""
          /\ (pc[p] = "link" /\ lru_b[p] = NULL /\ pc'[p] # pc[p])
               => /\ UNCHANGED <<head, next, dev, blockno, valid>>
                  /\ IF TargetMatch(p) # NULL
                     THEN /\ pc'[p] = "sleep" /\ b'[p] = TargetMatch(p)
                          /\ refcnt'[b'[p]] = refcnt[b'[p]] + 1
                          /\ panicked' = ""
                     ELSE /\ pc'[p] = "panic"
                          /\ panicked' = "bget: no buffers"
                          /\ UNCHANGED refcnt
     /\ (panicked = "" /\ panicked' # "" /\ mode = "free")
          => /\ panicked' = "bget: no buffers"
             /\ \E p \in Procs :
                  pc[p] = "link" /\ lru_b[p] = NULL /\ TargetMatch(p) = NULL]_vars

\* ---- brelse -------------------------------------------------------------

\* C18: brelse by the holder first releases the sleeplock of the slot and
\* changes nothing else of it; its critical section, after that, takes
\* exactly one reference off the slot, sets the timestamp to ticks if
\* refcnt became 0 and leaves it if not, and changes neither identity,
\* valid flag, contents nor any list, nor any other slot.
C18_ReleaseOrder ==
  [][\A p \in Procs :
       /\ (pc[p] = "held" /\ pc'[p] = "brelse2")
            => /\ buflock[b[p]] = p /\ buflock'[b[p]] = 0
               /\ b'[p] = b[p]
               /\ UNCHANGED slotvars
       /\ (pc[p] = "brelse2" /\ pc'[p] # pc[p])
            => /\ buflock[b[p]] # p
               /\ buklock[hash(dev[b[p]], blockno[b[p]])] = 0
               /\ InList(b[p], hash(dev[b[p]], blockno[b[p]]))
               /\ refcnt'[b[p]] = refcnt[b[p]] - 1
               /\ timestamp'[b[p]] =
                    IF refcnt[b[p]] = 1 THEN ticks ELSE timestamp[b[p]]
               /\ \A s \in Bufs \ {b[p]} :
                    refcnt'[s] = refcnt[s] /\ timestamp'[s] = timestamp[s]
               /\ UNCHANGED <<head, next, dev, blockno, valid, data, lockvars>>]_vars

\* a release is between its two halves: the sleeplock already belongs to
\* another caller, the slot has more references than this one and a
\* timestamp that differs from ticks
C18_Witness ==
  \E p, q \in Procs :
    /\ p # q /\ pc[p] = "brelse2" /\ refcnt[b[p]] >= 2
    /\ buflock[b[p]] = q /\ timestamp[b[p]] # ticks

\* ---- progress -----------------------------------------------------------

\* the holder of the spinlock that the next step of caller p acquires,
\* 0 if that lock is free or p is not about to acquire a spinlock
Blocker(p) ==
  IF pc[p] = "scan" THEN buklock[i[p]]
  ELSE IF pc[p] = "acq_bcache" THEN bcachelock
  ELSE IF pc[p] = "link" THEN buklock[hash(arg[p][1], arg[p][2])]
  ELSE IF pc[p] = "brelse2" THEN buklock[hash(dev[b[p]], blockno[b[p]])]
  ELSE 0

NoCyclicWait ==
  ~\E S \in SUBSET Procs : S # {} /\ \A p \in S : Blocker(p) \in S

\* C19: no set of callers waits in a cycle for spinlocks that its members
\* hold, and a call stops for good only in the panic "bget: no buffers"
\* (callers keep the contracts of bwrite and brelse): a call of bget that
\* stops in any other way never returns a slot and never reports the
\* capacity error.
C19_Progress ==
  /\ NoCyclicWait
  /\ mode = "free" =>
       /\ panicked \in {"", "bget: no buffers"}
       /\ \A p \in Procs : pc[p] = "panic" => panicked = "bget: no buffers"

\* ---- the owning bucket --------------------------------------------------

\* C20: every slot with refcnt > 0 is on the list of bucket
\* hash(dev, blockno) of its identity and on no other, and every step that
\* changes the refcnt of a slot finds free, and so takes, the lock of the
\* one bucket whose list holds the slot when the step ends.
C20_OwningBucket ==
  [][\A s \in Bufs :
       /\ refcnt[s] > 0 => SlotBuckets(s) = {hash(dev[s], blockno[s])}
       /\ refcnt'[s] # refcnt[s]
            => /\ buklock[hash(dev'[s], blockno'[s])] = 0
               /\ buklock'[hash(dev'[s], blockno'[s])] = 0
               /\ \/ UNCHANGED <<head, next>> /\ InList(s, hash(dev'[s], blockno'[s]))
                  \/ SlotBuckets(s)' = {hash(dev'[s], blockno'[s])}]_vars

\* a pinned and held slot in bucket 1 while a slot with refcnt 0 and an
\* identity sits in a bucket that is not the hash of its identity
C20_Witness ==
  \E s, t \in Bufs, p \in Procs :
    /\ pc[p] = "held" /\ b[p] = s /\ pins[s] > 0 /\ refcnt[s] = 2
    /\ hash(dev[s], blockno[s]) = 1
    /\ refcnt[t] = 0 /\ dev[t] # 0 /\ ~InList(t, hash(dev[t], blockno[t]))

====
